---- MODULE Spec2Model ----
(***************************************************************************)
(* erdtree: resolution of the command line and the configuration file      *)
(* into one Context (src/render/context/mod.rs) and the per-entry Node     *)
(* snapshot (src/render/tree/node/mod.rs).                                 *)
(*                                                                         *)
(* Tokens are strings.  A token that begins with two hyphens is one of the *)
(* strings of LongTokens; every other token of the alphabets below is a    *)
(* value that does not begin with a hyphen.                                *)
(***************************************************************************)
EXTENDS Integers, Sequences, FiniteSets, TLC

VARIABLES
  argv,         \* the process arguments after the program name
  config,       \* the configuration file: present or not, and its tokens
  pc,           \* "start" before Context::init, "done" after it
  result,       \* what Context::init ended with: a Context or a process exit
  path,         \* the return Context::init left by
  user_args,    \* the ArgMatches of the first parse
  config_args,  \* the ArgMatches of the config tokens
  args,         \* the re-synthesized token sequence
  picked,       \* per identifier, the tokens the loop appended for it
  origin,       \* per identifier, the branch that appended them
  entry,        \* the DirEntry the traversal handed over
  node,         \* the Node built from it
  lastOp,       \* the last operation on the Node
  changes,      \* how often file_size changed after construction
  rendered,     \* the Node has been displayed
  lateChange,   \* file_size changed after the Node was displayed
  predicate,    \* what Context::regex_predicate returned
  probe,        \* the DirEntry the predicate was last applied to
  verdict,      \* what the predicate answered for it
  max_du_width,     \* Context::max_du_width
  max_nlink_width,  \* Context::max_nlink_width
  phase,        \* where the run is: "idle", "traverse", "sized", "render"
  visited,      \* how many entries the traversal has visited
  maxDu,        \* the largest disk usage among the visited entries
  maxNlink,     \* the largest nlink among the visited entries
  duCalls,      \* how often set_max_du_width was called
  nlinkCalls,   \* how often set_max_nlink_width was called
  duWrites,     \* how often max_du_width was assigned
  nlinkWrites,  \* how often max_nlink_width was assigned
  reads         \* how many entries the renderer has formatted with the widths

ctxVars ==
  <<argv, config, pc, result, path, user_args, config_args, args, picked, origin>>

nodeVars == <<entry, node, lastOp, changes, rendered, lateChange>>

regexVars == <<predicate, probe, verdict>>

widthVars ==
  <<max_du_width, max_nlink_width, phase, visited, maxDu, maxNlink,
    duCalls, nlinkCalls, duWrites, nlinkWrites, reads>>

vars == <<ctxVars, nodeVars, regexVars, widthVars>>

(***************************************************************************)
(* Bounds of the model.                                                    *)
(***************************************************************************)
MaxUserArgs == 3

MaxConfigArgs == 2

MaxLen == 2

MaxSizeChanges == 3

MaxEntries == 2

MaxDu == 10

MaxNlink == 2

(* The width fields as #[clap(skip = usize::default())] leaves them, and   *)
(* no traversal under way.                                                 *)
WidthIdle ==
  /\ max_du_width = 0
  /\ max_nlink_width = 0
  /\ phase = "idle"
  /\ visited = 0
  /\ maxDu = 0
  /\ maxNlink = 0
  /\ duCalls = 0
  /\ nlinkCalls = 0
  /\ duWrites = 0
  /\ nlinkWrites = 0
  /\ reads = 0

NoValue == "<None>"

BinName == "--"

(***************************************************************************)
(* The command declared by #[derive(Parser)] on Context.                   *)
(***************************************************************************)
ArgIds ==
  << "dir", "disk_usage", "hidden", "no_git", "no_ignore", "follow", "icons",
     "level", "long", "pattern", "glob", "iglob", "prune", "scale", "report",
     "human", "file_name", "sort", "dirs_first", "threads", "unit",
     "completions", "dirs_only", "no_color", "no_config", "suppress_size" >>

ArgIdSet == { ArgIds[i] : i \in 1..Len(ArgIds) }

GroupId == "Context"

BoolIds ==
  { "hidden", "no_git", "no_ignore", "follow", "icons", "long", "glob",
    "iglob", "prune", "report", "human", "file_name", "dirs_first",
    "dirs_only", "no_color", "no_config", "suppress_size" }

UsizeIds == { "level", "scale", "threads" }

EnumIds == { "disk_usage", "sort", "unit", "completions" }

ArgKind(id) ==
  IF id = "dir" THEN "positional"
  ELSE IF id \in BoolIds THEN "flag"
  ELSE "option"

Requires(id) ==
  CASE id = "no_git" -> {"hidden"}
    [] id \in {"glob", "iglob"} -> {"pattern"}
    [] id \in {"human", "file_name"} -> {"report"}
    [] OTHER -> {}

HasDefault(id) ==
  id \in BoolIds \cup {"disk_usage", "scale", "sort", "threads", "unit"}

DefaultRaw(id) ==
  CASE id \in BoolIds -> "false"
    [] id = "scale" -> "2"
    [] id = "threads" -> "3"
    [] id = "disk_usage" -> "DiskUsage::default()"
    [] id = "sort" -> "SortType::default()"
    [] id = "unit" -> "PrefixKind::default()"

(* id.replace('_', "-") behind "--", as a table over the identifiers.      *)
Kebab(id) ==
  CASE id = "dir" -> "--dir"
    [] id = "disk_usage" -> "--disk-usage"
    [] id = "hidden" -> "--hidden"
    [] id = "no_git" -> "--no-git"
    [] id = "no_ignore" -> "--no-ignore"
    [] id = "follow" -> "--follow"
    [] id = "icons" -> "--icons"
    [] id = "level" -> "--level"
    [] id = "long" -> "--long"
    [] id = "pattern" -> "--pattern"
    [] id = "glob" -> "--glob"
    [] id = "iglob" -> "--iglob"
    [] id = "prune" -> "--prune"
    [] id = "scale" -> "--scale"
    [] id = "report" -> "--report"
    [] id = "human" -> "--human"
    [] id = "file_name" -> "--file-name"
    [] id = "sort" -> "--sort"
    [] id = "dirs_first" -> "--dirs-first"
    [] id = "threads" -> "--threads"
    [] id = "unit" -> "--unit"
    [] id = "completions" -> "--completions"
    [] id = "dirs_only" -> "--dirs-only"
    [] id = "no_color" -> "--no-color"
    [] id = "no_config" -> "--no-config"
    [] id = "suppress_size" -> "--suppress-size"

LongTokens == { Kebab(id) : id \in ArgIdSet }

(* The long options the command knows: the positional has none.            *)
KnownLongs == { Kebab(id) : id \in ArgIdSet \ {"dir"} }

IdOfLong(t) == CHOOSE id \in ArgIdSet \ {"dir"} : Kebab(id) = t

NonTextValues == { "\\xFF" }

UsizeValues == { "0", "1", "2", "3" }

EnumValues(id) ==
  CASE id = "disk_usage" -> {"logical", "physical", "DiskUsage::default()"}
    [] id = "sort" -> {"SortType::default()"}
    [] id = "unit" -> {"PrefixKind::default()"}
    [] id = "completions" -> {"bash", "elvish", "fish", "powershell", "zsh"}

(* The value parser of the field's type.                                   *)
ValueOK(id, v) ==
  CASE id = "dir" -> TRUE
    [] id = "pattern" -> v \notin NonTextValues
    [] id \in UsizeIds -> v \in UsizeValues
    [] id \in EnumIds -> v \in EnumValues(id)
    [] OTHER -> v \in {"true", "false"}

(***************************************************************************)
(* ArgMatches: the identifiers in insertion order, each present one with   *)
(* its raw values and the source of its value.                             *)
(***************************************************************************)
EmptyMatches == [order |-> <<>>, raw |-> <<>>, src |-> <<>>]

Present(m, id) == id \in DOMAIN m.raw

Explicit(m, id) == Present(m, id) /\ m.src[id] = "CommandLine"

Without(s, x) == SelectSeq(s, LAMBDA y : y # x)

InSeq(s, x) == \E i \in 1..Len(s) : s[i] = x

Put(f, k, v) == [x \in DOMAIN f \cup {k} |-> IF x = k THEN v ELSE f[x]]

Insert(m, id, vals, source) ==
  LET o1 == Append(Without(m.order, id), id)
      o2 == IF source = "CommandLine" /\ ~InSeq(o1, GroupId)
            THEN Append(o1, GroupId) ELSE o1
  IN [order |-> o2, raw |-> Put(m.raw, id, vals), src |-> Put(m.src, id, source)]

RECURSIVE ParseLoop(_, _, _, _)
ParseLoop(toks, i, m, overrideSelf) ==
  IF i > Len(toks) THEN [err |-> "none", m |-> m]
  ELSE
    LET t == toks[i] IN
    IF t \in LongTokens THEN
      IF t \notin KnownLongs THEN [err |-> "UnknownArgument", m |-> m]
      ELSE
        LET id == IdOfLong(t) IN
        IF ArgKind(id) = "flag" THEN
          IF Explicit(m, id) /\ ~overrideSelf
          THEN [err |-> "ArgumentConflict", m |-> m]
          ELSE ParseLoop(toks, i + 1, Insert(m, id, <<"true">>, "CommandLine"),
                         overrideSelf)
        ELSE
          IF i + 1 > Len(toks) THEN [err |-> "InvalidValue", m |-> m]
          ELSE IF toks[i + 1] \in LongTokens THEN
            [err |-> IF toks[i + 1] \in KnownLongs THEN "InvalidValue"
                     ELSE "UnknownArgument",
             m |-> m]
          ELSE IF Explicit(m, id) /\ ~overrideSelf
          THEN [err |-> "ArgumentConflict", m |-> m]
          ELSE IF ~ValueOK(id, toks[i + 1])
          THEN [err |-> "ValueValidation", m |-> m]
          ELSE ParseLoop(toks, i + 2,
                         Insert(m, id, <<toks[i + 1]>>, "CommandLine"),
                         overrideSelf)
    ELSE
      IF Explicit(m, "dir") THEN [err |-> "UnknownArgument", m |-> m]
      ELSE ParseLoop(toks, i + 1, Insert(m, "dir", <<t>>, "CommandLine"),
                     overrideSelf)

RECURSIVE AddDefaults(_, _)
AddDefaults(m, k) ==
  IF k > Len(ArgIds) THEN m
  ELSE
    LET id == ArgIds[k] IN
    IF HasDefault(id) /\ ~Present(m, id)
    THEN AddDefaults(Insert(m, id, <<DefaultRaw(id)>>, "DefaultValue"), k + 1)
    ELSE AddDefaults(m, k + 1)

RequiresMet(m) ==
  \A id \in DOMAIN m.raw :
    Explicit(m, id) => \A r \in Requires(id) : Explicit(m, r)

(* Command::get_matches_from: the first element is the binary name; the    *)
(* rest is parsed, defaults are added, and the declared dependencies are   *)
(* validated.  An error ends the process.                                  *)
GetMatchesFrom(itr, overrideSelf) ==
  LET toks == IF Len(itr) = 0 THEN <<>> ELSE Tail(itr)
      p == ParseLoop(toks, 1, EmptyMatches, overrideSelf)
  IN IF p.err # "none" THEN p
     ELSE
       LET m == AddDefaults(p.m, 1) IN
       IF RequiresMet(m) THEN [err |-> "none", m |-> m]
       ELSE [err |-> "MissingRequiredArgument", m |-> m]

(* ArgMatches::args_present: some argument was given explicitly.           *)
ArgsPresent(m) == \E id \in DOMAIN m.raw : Explicit(m, id)

(* ArgMatches::try_get_raw: the raw values of a present identifier.        *)
TryGetRaw(m, id) == IF Present(m, id) THEN m.raw[id] ELSE <<>>

(* ArgMatches::value_source.                                               *)
ValueSource(m, id) == IF Present(m, id) THEN m.src[id] ELSE "None"

(* Context::from_arg_matches: each field from the identifier's value.      *)
FromArgMatches(m) ==
  [id \in ArgIdSet |-> IF Present(m, id) THEN m.raw[id][1] ELSE NoValue]

(* Context::dir.                                                           *)
Dir(ctx) == IF ctx["dir"] = NoValue THEN "." ELSE ctx["dir"]

(***************************************************************************)
(* Context::init and its helpers.                                          *)
(***************************************************************************)
RECURSIVE Flatten(_)
Flatten(ss) == IF Len(ss) = 0 THEN <<>> ELSE Head(ss) \o Flatten(Tail(ss))

(* pick_args_from without the filter that drops "true" tokens.             *)
PickArgsFromKeepTrue(id, matches, acc) ==
  IF ~Present(matches, id) THEN acc
  ELSE
    LET raw == TryGetRaw(matches, id)
        pairs == [i \in 1..Len(raw) |-> <<Kebab(id), raw[i]>>]
        kept == SelectSeq(pairs, LAMBDA pair : pair[2] # "false")
    IN acc \o Flatten(kept)

(* Context::pick_args_from: each raw value paired with the flag, pairs     *)
(* whose value is "false" dropped, then every "true" token dropped.        *)
PickArgsFrom(id, matches, acc) ==
  IF ~Present(matches, id) THEN acc
  ELSE
    LET raw == TryGetRaw(matches, id)
        pairs == [i \in 1..Len(raw) |-> <<Kebab(id), raw[i]>>]
        kept == SelectSeq(pairs, LAMBDA pair : pair[2] # "false")
        raw_args == SelectSeq(Flatten(kept), LAMBDA s : s # "true")
    IN acc \o raw_args

(* crate::utils::uniq: duplicates removed, first occurrences kept in order. *)
RECURSIVE Uniq(_)
Uniq(s) ==
  IF Len(s) = 0 THEN <<>>
  ELSE <<Head(s)>> \o Uniq(Without(Tail(s), Head(s)))

(* config::parse behind config::read_config_to_string: the tokens of the   *)
(* file after the placeholder that stands for the binary name.             *)
ConfigParse(file) == <<BinName>> \o file.toks

(* The loop with the config's target directory preferred to the user's.    *)
ChosenConfigDirFirst(id, user, cfg) ==
  IF id = GroupId THEN "skip"
  ELSE IF id = "dir" /\ Present(cfg, id) THEN "config"
  ELSE IF id = "dir" /\ Present(user, id) THEN "user_raw"
  ELSE IF ValueSource(user, id) = "CommandLine" THEN "user"
  ELSE "config"

(* The branch the reconciliation loop takes for one identifier.            *)
Chosen(id, user, cfg) ==
  IF id = GroupId THEN "skip"
  ELSE IF id = "dir" /\ Present(user, id) THEN "user_raw"
  ELSE IF ValueSource(user, id) = "CommandLine" THEN "user"
  ELSE "config"

(* One iteration of the loop over ids.                                     *)
LoopBody(id, user, cfg, acc) ==
  LET c == Chosen(id, user, cfg) IN
  CASE c = "skip" -> acc
    [] c = "user_raw" -> acc \o TryGetRaw(user, id)
    [] c = "user" -> PickArgsFrom(id, user, acc)
    [] c = "config" -> PickArgsFrom(id, cfg, acc)

RECURSIVE Reconcile(_, _, _, _, _)
Reconcile(ids, k, user, cfg, acc) ==
  IF k > Len(ids) THEN acc
  ELSE Reconcile(ids, k + 1, user, cfg,
                 LoopBody(ids[k], user, cfg, acc))

MergedIds(user, cfg) == Uniq(user.order \o cfg.order)

NoCtx == [id \in ArgIdSet |-> NoValue]

Exit(stage, err) == [kind |-> "exit", stage |-> stage, err |-> err, ctx |-> NoCtx]

Ok(ctx) == [kind |-> "ok", stage |-> "none", err |-> "none", ctx |-> ctx]

Pending == [kind |-> "pending", stage |-> "none", err |-> "none", ctx |-> NoCtx]

(* History of the reconciliation: what each identifier appended and where  *)
(* it was taken from.                                                      *)
PickedOf(user, cfg) ==
  [id \in ArgIdSet |-> LoopBody(id, user, cfg, <<>>)]

OriginOf(user, cfg) ==
  [id \in ArgIdSet |->
     IF LoopBody(id, user, cfg, <<>>) = <<>> THEN "none"
     ELSE Chosen(id, user, cfg)]

NothingPicked == [id \in ArgIdSet |-> <<>>]

NoOrigin == [id \in ArgIdSet |-> "none"]

Return(res, by, user, cfg) ==
  [result |-> res, path |-> by, user_args |-> user, config_args |-> cfg,
   args |-> <<>>, picked |-> NothingPicked, origin |-> NoOrigin]

(* What Context::init does on the process arguments and the config file:   *)
(* the outcome, the return it left by, and the re-synthesized tokens.      *)
InitOutcome(live, file) ==
  LET user == GetMatchesFrom(<<"et">> \o live, TRUE) IN
  IF user.err # "none" THEN Return(Exit("user", user.err), "exit_user", EmptyMatches, EmptyMatches)
  ELSE IF TryGetRaw(user.m, "no_config") = <<"true">>
  THEN Return(Ok(FromArgMatches(user.m)), "no_config", user.m, EmptyMatches)
  ELSE IF ~file.present
  THEN Return(Ok(FromArgMatches(user.m)), "no_file", user.m, EmptyMatches)
  ELSE
    LET cfg == GetMatchesFrom(ConfigParse(file), FALSE) IN
    IF cfg.err # "none"
    THEN Return(Exit("config", cfg.err), "exit_config", user.m, EmptyMatches)
    ELSE IF ~ArgsPresent(user.m)
    THEN Return(Ok(FromArgMatches(cfg.m)), "bare", user.m, cfg.m)
    ELSE
      LET synth == Reconcile(MergedIds(user.m, cfg.m), 1, user.m, cfg.m,
                             <<BinName>>)
          clargs == GetMatchesFrom(synth, FALSE)
      IN [result |-> IF clargs.err # "none" THEN Exit("merged", clargs.err)
                     ELSE Ok(FromArgMatches(clargs.m)),
          path |-> IF clargs.err # "none" THEN "exit_merged" ELSE "reconciled",
          user_args |-> user.m,
          config_args |-> cfg.m,
          args |-> synth,
          picked |-> PickedOf(user.m, cfg.m),
          origin |-> OriginOf(user.m, cfg.m)]

ContextInit ==
  /\ pc = "start"
  /\ \E o \in { InitOutcome(argv, config) } :
       /\ result' = o.result
       /\ path' = o.path
       /\ user_args' = o.user_args
       /\ config_args' = o.config_args
       /\ args' = o.args
       /\ picked' = o.picked
       /\ origin' = o.origin
  /\ pc' = "done"
  /\ UNCHANGED <<argv, config>>
  /\ UNCHANGED <<nodeVars, regexVars, widthVars>>

(***************************************************************************)
(* Node: the snapshot of one directory entry.                              *)
(***************************************************************************)
None == [some |-> FALSE, v |-> 0]

Some(v) == [some |-> TRUE, v |-> v]

NoEntry ==
  [name |-> "", file_type |-> "none", metadata_ok |-> FALSE, len |-> 0,
   allocated |-> None, link |-> NoValue, attrs |-> FALSE]

NoNode ==
  [built |-> FALSE, dir_entry |-> NoEntry, metadata |-> 0, file_size |-> None,
   style |-> NoValue, symlink_target |-> NoValue, inode |-> NoValue,
   xattrs |-> NoValue]

NodeIdle ==
  /\ entry = NoEntry
  /\ node = NoNode
  /\ lastOp = "none"
  /\ changes = 0
  /\ rendered = FALSE
  /\ lateChange = FALSE

(* The DiskUsage a raw --disk-usage value parses to; which variant         *)
(* DiskUsage::default() is, the source of Context does not say.            *)
DiskUsageOf(raw) ==
  CASE raw = "logical" -> {"Logical"}
    [] raw = "physical" -> {"Physical"}
    [] OTHER -> {"Logical", "Physical"}

(* FileSize::logical: the length the metadata reports.                     *)
FileSizeLogical(e) == Some(e.len)

(* FileSize::physical: the allocation on disk, where the platform has it.  *)
FileSizePhysical(e) == e.allocated

(* file_size with the guard on suppress_size left out.                     *)
FileSizeIgnoringSuppress(e, ctx, disk_usage) ==
  IF e.file_type = "file"
  THEN IF disk_usage = "Logical" THEN FileSizeLogical(e) ELSE FileSizePhysical(e)
  ELSE None

(* The match on file_type in Node::try_from.                               *)
FileSizeOf(e, ctx, disk_usage) ==
  IF e.file_type = "file" /\ ctx["suppress_size"] # "true"
  THEN IF disk_usage = "Logical" THEN FileSizeLogical(e) ELSE FileSizePhysical(e)
  ELSE None

(* impl TryFrom<(DirEntry, &Context)> for Node.                            *)
TryFrom(e, ctx, disk_usage) ==
  [built |-> TRUE,
   dir_entry |-> e,
   metadata |-> e.len,
   file_size |-> FileSizeOf(e, ctx, disk_usage),
   style |-> "Style",
   symlink_target |-> e.link,
   inode |-> "Inode",
   xattrs |-> IF ctx["long"] = "true" /\ e.attrs THEN "XAttrs" ELSE NoValue]

NodeTryFrom ==
  /\ pc = "done"
  /\ result.kind = "ok"
  /\ ~node.built
  /\ lastOp = "none"
  /\ IF entry.metadata_ok
     THEN \E du \in DiskUsageOf(result.ctx["disk_usage"]) :
            node' = TryFrom(entry, result.ctx, du)
     ELSE node' = node
  /\ lastOp' = IF entry.metadata_ok THEN "try_from" ELSE "try_from_err"
  /\ UNCHANGED <<entry, changes, rendered, lateChange>>
  /\ UNCHANGED <<ctxVars, regexVars, widthVars>>

(* set_file_size that also rewrites the metadata's length.                 *)
SetFileSizeAndLen(n, size) ==
  [n EXCEPT !.file_size = Some(size), !.metadata = size]

(* Node::set_file_size.                                                    *)
SetFileSize(n, size) == [n EXCEPT !.file_size = Some(size)]

NodeSetFileSize ==
  /\ node.built
  /\ \E size \in 0..MaxLen :
       /\ node' = SetFileSize(node, size)
       /\ LET changed == node'.file_size # node.file_size IN
            /\ changed => changes < MaxSizeChanges
            /\ changes' = IF changed THEN changes + 1 ELSE changes
            /\ lateChange' = (lateChange \/ (changed /\ rendered))
  /\ lastOp' = "set_file_size"
  /\ UNCHANGED <<entry, rendered>>
  /\ UNCHANGED <<ctxVars, regexVars, widthVars>>

(* Node::display: formats the node through &self.                          *)
NodeDisplay ==
  /\ node.built
  /\ rendered' = TRUE
  /\ lastOp' = "display"
  /\ UNCHANGED <<entry, node, changes, lateChange>>
  /\ UNCHANGED <<ctxVars, regexVars, widthVars>>

(***************************************************************************)
(* Context::regex_predicate.  A file name is its sequence of bytes, one    *)
(* string per byte; a compiled pattern is the literal it searches for and  *)
(* whether the literal has to end the text.                                *)
(***************************************************************************)
Unbuilt == [kind |-> "unbuilt", err |-> "none", re |-> NoValue]

NoVerdict == "none"

RegexIdle ==
  /\ predicate = Unbuilt
  /\ probe = NoEntry
  /\ verdict = NoVerdict

Patterns == { "\\.rs$", "\\.py$", "main", "(" }

(* Regex::new on the patterns above.                                       *)
RegexNew(pattern) ==
  CASE pattern = "\\.rs$" ->
         [ok |-> TRUE, lit |-> <<".", "r", "s">>, at_end |-> TRUE]
    [] pattern = "\\.py$" ->
         [ok |-> TRUE, lit |-> <<".", "p", "y">>, at_end |-> TRUE]
    [] pattern = "main" ->
         [ok |-> TRUE, lit |-> <<"m", "a", "i", "n">>, at_end |-> FALSE]
    [] OTHER -> [ok |-> FALSE, lit |-> <<>>, at_end |-> FALSE]

(* Regex::is_match.                                                        *)
IsMatch(re, text) ==
  \E start \in 1..(Len(text) - Len(re.lit) + 1) :
    /\ SubSeq(text, start, start + Len(re.lit) - 1) = re.lit
    /\ re.at_end => start + Len(re.lit) - 1 = Len(text)

(* OsStr::to_string_lossy: bytes that are no text become U+FFFD.           *)
ToStringLossy(name) ==
  [i \in 1..Len(name) |-> IF name[i] \in NonTextValues THEN "U+FFFD" ELSE name[i]]

(* The closure regex_predicate returns.                                    *)
Accepts(re, dir_entry) ==
  IF dir_entry.file_type = "dir" THEN TRUE
  ELSE IsMatch(re, ToStringLossy(dir_entry.name))

(* regex_predicate with the test of iglob left out.                        *)
RegexPredicateGlobOnly(ctx) ==
  IF ctx["glob"] = "true"
  THEN [kind |-> "err", err |-> "RegexDisabled", re |-> NoValue]
  ELSE IF ctx["pattern"] = NoValue
  THEN [kind |-> "err", err |-> "PatternNotProvided", re |-> NoValue]
  ELSE LET re == RegexNew(ctx["pattern"]) IN
       IF ~re.ok THEN [kind |-> "err", err |-> "Regex", re |-> NoValue]
       ELSE [kind |-> "ok", err |-> "none", re |-> ctx["pattern"]]

(* Context::regex_predicate.                                               *)
RegexPredicate(ctx) ==
  IF ctx["iglob"] = "true" \/ ctx["glob"] = "true"
  THEN [kind |-> "err", err |-> "RegexDisabled", re |-> NoValue]
  ELSE IF ctx["pattern"] = NoValue
  THEN [kind |-> "err", err |-> "PatternNotProvided", re |-> NoValue]
  ELSE LET re == RegexNew(ctx["pattern"]) IN
       IF ~re.ok THEN [kind |-> "err", err |-> "Regex", re |-> NoValue]
       ELSE [kind |-> "ok", err |-> "none", re |-> ctx["pattern"]]

ProbeNames ==
  { <<"s", "r", "c">>,
    <<"m", "a", "i", "n", ".", "r", "s">>,
    <<"m", "a", "i", "n", ".", "p", "y">>,
    <<"m", "a", "i", "n">>,
    <<"\\xFF", ".", "r", "s">> }

ProbeEntries ==
  { [name |-> n, file_type |-> ft, metadata_ok |-> TRUE, len |-> 0,
     allocated |-> None, link |-> NoValue, attrs |-> FALSE] :
      n \in ProbeNames, ft \in {"none", "file", "dir", "symlink"} }

BuildRegexPredicate ==
  /\ pc = "done"
  /\ result.kind = "ok"
  /\ predicate = Unbuilt
  /\ predicate' = RegexPredicate(result.ctx)
  /\ UNCHANGED <<probe, verdict>>
  /\ UNCHANGED <<ctxVars, nodeVars, widthVars>>

ApplyPredicate ==
  /\ predicate.kind = "ok"
  /\ \E e \in ProbeEntries :
       /\ probe' = e
       /\ verdict' = IF Accepts(RegexNew(predicate.re), e)
                     THEN "accept" ELSE "reject"
  /\ UNCHANGED predicate
  /\ UNCHANGED <<ctxVars, nodeVars, widthVars>>

(***************************************************************************)
(* The process arguments and the configuration file of one run.            *)
(***************************************************************************)
UserTokens ==
  { "--hidden", "--no-git", "--pattern", "--scale", "--no-config",
    "true", "false", "1", "usr", "\\xFF" }

ConfigTokens == { "--hidden", "--pattern", "cfg" }

SeqsUpTo(S, n) == UNION { [1..k -> S] : k \in 0..n }

ConfigFiles ==
  { [present |-> FALSE, toks |-> <<>>] } \cup
  { [present |-> TRUE, toks |-> t] : t \in SeqsUpTo(ConfigTokens, MaxConfigArgs) }

Init ==
  /\ argv \in SeqsUpTo(UserTokens, MaxUserArgs)
  /\ config \in ConfigFiles
  /\ pc = "start"
  /\ result = Pending
  /\ path = "none"
  /\ user_args = EmptyMatches
  /\ config_args = EmptyMatches
  /\ args = <<>>
  /\ picked = NothingPicked
  /\ origin = NoOrigin
  /\ NodeIdle
  /\ RegexIdle
  /\ WidthIdle

Next == ContextInit

Spec == Init /\ [][Next]_vars

(***************************************************************************)
(* One entry of a traversal under a Context resolved without config file.  *)
(***************************************************************************)
NodeArgv ==
  { f \o d : f \in { <<>>, <<"--suppress-size">>, <<"--long">>,
                     <<"--long", "--suppress-size">> },
             d \in { <<>>, <<"--disk-usage", "logical">>,
                     <<"--disk-usage", "physical">> } }

DirEntries ==
  { [name |-> "e", file_type |-> ft, metadata_ok |-> ok, len |-> l,
     allocated |-> a, link |-> IF ft = "symlink" THEN "target" ELSE NoValue,
     attrs |-> x] :
      ft \in {"none", "file", "dir", "symlink"}, ok \in BOOLEAN,
      l \in 0..MaxLen, a \in {None, Some(MaxLen)}, x \in BOOLEAN }

NoConfig == [present |-> FALSE, toks |-> <<>>]

(* The state Context::init leaves on these arguments.                      *)
AfterInit(live, file) ==
  \E o \in { InitOutcome(live, file) } :
    /\ argv = live
    /\ config = file
    /\ pc = "done"
    /\ result = o.result
    /\ path = o.path
    /\ user_args = o.user_args
    /\ config_args = o.config_args
    /\ args = o.args
    /\ picked = o.picked
    /\ origin = o.origin

InitNode ==
  /\ \E live \in NodeArgv : AfterInit(live, NoConfig)
  /\ entry \in DirEntries
  /\ node = NoNode
  /\ lastOp = "none"
  /\ changes = 0
  /\ rendered = FALSE
  /\ lateChange = FALSE
  /\ RegexIdle
  /\ WidthIdle

NextNode == NodeTryFrom \/ NodeSetFileSize \/ NodeDisplay

SpecNode == InitNode /\ [][NextNode]_vars

(***************************************************************************)
(* The pattern filter under a Context resolved without config file.        *)
(***************************************************************************)
RegexArgv ==
  { h \o f : h \in { <<>>, <<"--hidden">> },
             f \in { <<>> } \cup
                   { <<"--pattern", p>> \o g :
                       p \in Patterns,
                       g \in { <<>>, <<"--glob">>, <<"--iglob">>,
                               <<"--glob", "--iglob">> } } }

InitRegex ==
  /\ \E live \in RegexArgv : AfterInit(live, NoConfig)
  /\ NodeIdle
  /\ RegexIdle
  /\ WidthIdle

NextRegex == BuildRegexPredicate \/ ApplyPredicate

SpecRegex == InitRegex /\ [][NextRegex]_vars

(***************************************************************************)
(* Properties of Context::init.                                            *)
(***************************************************************************)
Done == pc = "done"

Resolved == Done /\ result.kind = "ok"

Merged == path \in {"reconciled", "exit_merged"}

OptionIds == ArgIdSet \ (BoolIds \cup {"dir"})

(* The raw values the loop handed to the emission for an identifier.       *)
Won(id) ==
  CASE origin[id] \in {"user", "user_raw"} -> TryGetRaw(user_args, id)
    [] origin[id] = "config" -> TryGetRaw(config_args, id)
    [] OTHER ->
         IF ValueSource(user_args, id) = "CommandLine"
         THEN TryGetRaw(user_args, id) ELSE TryGetRaw(config_args, id)

Adjacent(s, a, b) == \E i \in 1..(Len(s) - 1) : s[i] = a /\ s[i + 1] = b

Count(s, x) == Cardinality({ i \in 1..Len(s) : s[i] = x })

(* The target directory the config file's tokens give, if any.             *)
FileDir(file) ==
  IF ~file.present THEN {}
  ELSE LET c == ParseLoop(file.toks, 1, EmptyMatches, FALSE) IN
       IF Present(c.m, "dir") THEN { c.m.raw["dir"][1] } ELSE {}

(* C1: after a reconciliation that resolves a Context, every identifier    *)
(* other than dir whose value source in the user parse is the command line *)
(* has its command-line value in the Context.                              *)
C1_CommandLineWins ==
  (Resolved /\ path = "reconciled") =>
    \A id \in ArgIdSet \ {"dir"} :
      ValueSource(user_args, id) = "CommandLine" =>
        result.ctx[id] = user_args.raw[id][1]

(* C2: when the config file is read and parses, every identifier absent    *)
(* from the command line and given by the config file is resolved, and to  *)
(* the config's value.                                                     *)
C2_ConfigFillsAbsent ==
  (Done /\ path \in {"bare", "reconciled", "exit_merged"}) =>
    \A id \in ArgIdSet :
      (~Explicit(user_args, id) /\ Explicit(config_args, id)) =>
        /\ result.kind = "ok"
        /\ result.ctx[id] = config_args.raw[id][1]

HiddenFile == [present |-> TRUE, toks |-> <<"--hidden">>]

(* C3: --no-git against a config file that sets hidden resolves; --no-git  *)
(* with no config file fails on the dependency; and with a config file to  *)
(* read, the first parse ends on no dependency error of its own.           *)
C3_DependencyOnMergedOnly ==
  Done =>
    /\ (argv = <<"--no-git">> /\ config = HiddenFile) => result.kind = "ok"
    /\ (argv = <<"--no-git">> /\ ~config.present) =>
         (result.kind = "exit" /\ result.err = "MissingRequiredArgument")
    /\ (config.present /\ ~InSeq(argv, "--no-config")) =>
         ~(result.stage = "user" /\ result.err = "MissingRequiredArgument")

C5_DirVerbatim ==
  (Resolved /\ config.present /\ Present(user_args, "dir")) =>
    Dir(result.ctx) = user_args.raw["dir"][1]

(* C6: in a re-synthesized sequence a boolean identifier whose winning raw *)
(* value is "true" contributes its flag token alone, once, and one whose   *)
(* winning raw value is "false" contributes nothing: no "true"/"false"     *)
(* value token is paired with a boolean's flag token.                      *)
C6_BooleanFlagOnly ==
  (Done /\ Merged) =>
    \A b \in BoolIds :
      /\ Won(b) \in {<<"true">>, <<"false">>}
      /\ picked[b] = (IF Won(b) = <<"true">> THEN <<Kebab(b)>> ELSE <<>>)
      /\ Count(args, Kebab(b)) = (IF Won(b) = <<"true">> THEN 1 ELSE 0)
      /\ \A i \in 1..(Len(args) - 1) :
           (args[i] = Kebab(b) /\ args[i + 1] \in {"true", "false"}) =>
             (origin["dir"] = "user_raw" /\ picked["dir"] = <<args[i + 1]>>)

C6_Witness ==
  /\ path = "reconciled"
  /\ origin["hidden"] = "config"
  /\ picked["hidden"] = <<"--hidden">>
  /\ Won("hidden") = <<"true">>
  /\ Won("no_git") = <<"false">>
  /\ picked["no_git"] = <<>>
  /\ Adjacent(args, "--hidden", "--scale")

(* C9: every non-boolean option with a winning raw value v, "true" and     *)
(* "false" included, has its flag token immediately followed by v in the   *)
(* re-synthesized sequence.                                                *)
C9_NonBooleanKeepsValue ==
  (Done /\ Merged) =>
    \A id \in OptionIds :
      \A i \in 1..Len(Won(id)) : Adjacent(args, Kebab(id), Won(id)[i])

(***************************************************************************)
(* Properties of Node.                                                     *)
(***************************************************************************)
Rest(n) ==
  <<n.built, n.dir_entry, n.metadata, n.style, n.symlink_target, n.inode,
    n.xattrs>>

(* C7: right after Node::try_from succeeds, file_size is None when the     *)
(* entry is not a regular file or suppress_size is set, in either          *)
(* disk-usage mode.                                                        *)
C7_FileSizeNoneUnlessRegularFile ==
  (node.built /\ lastOp = "try_from") =>
    ((node.dir_entry.file_type # "file" \/ result.ctx["suppress_size"] = "true")
       => node.file_size = None)

C7_Witness ==
  /\ node.built
  /\ lastOp = "try_from"
  /\ node.dir_entry.file_type = "file"
  /\ node.dir_entry.allocated # None
  /\ result.ctx["suppress_size"] = "true"
  /\ result.ctx["disk_usage"] = "physical"
  /\ node.file_size = None

(* C10 as stated: after construction file_size changes at most once, never *)
(* after the node was displayed, and no other field differs from what      *)
(* try_from built.                                                         *)
C10_SingleBackfillBeforeDisplay ==
  node.built =>
    /\ changes <= 1
    /\ ~lateChange
    /\ Rest(node) = Rest(TryFrom(entry, result.ctx, "Logical"))

(* C10 amended: after construction file_size is the only field that ever   *)
(* changes, and only a call of set_file_size changes it; Node limits       *)
(* neither the number of such calls nor their order with display.          *)
C10_OnlyFileSizeBySetter ==
  [][node.built =>
       /\ Rest(node') = Rest(node)
       /\ (node'.file_size # node.file_size) => lastOp' = "set_file_size"]_vars

C10_Witness ==
  /\ node.built
  /\ rendered
  /\ lateChange
  /\ changes >= 2
  /\ lastOp = "set_file_size"

(***************************************************************************)
(* Properties of Context::regex_predicate.                                 *)
(***************************************************************************)
Built == predicate # Unbuilt

GlobMode == result.ctx["glob"] = "true" \/ result.ctx["iglob"] = "true"

Judged ==
  verdict # NoVerdict =>
    ((verdict = "accept") <=>
       (probe.file_type = "dir" \/
        IsMatch(RegexNew(result.ctx["pattern"]), ToStringLossy(probe.name))))

(* C8 as stated: the regex-disabled error under glob or iglob, the         *)
(* pattern-not-provided error without a pattern, and otherwise a predicate *)
(* that accepts every directory and a non-directory iff its name matches.  *)
C8_PredicateOrOneOfTwoErrors ==
  Built =>
    /\ GlobMode => (predicate.kind = "err" /\ predicate.err = "RegexDisabled")
    /\ (~GlobMode /\ result.ctx["pattern"] = NoValue) =>
         (predicate.kind = "err" /\ predicate.err = "PatternNotProvided")
    /\ (~GlobMode /\ result.ctx["pattern"] # NoValue) => predicate.kind = "ok"
    /\ Judged

(* C8 amended: as stated, but the predicate is returned only for a pattern *)
(* that compiles; a pattern that does not compile gives the regex error.   *)
C8_PredicateOrOneOfThreeErrors ==
  Built =>
    /\ GlobMode => (predicate.kind = "err" /\ predicate.err = "RegexDisabled")
    /\ (~GlobMode /\ result.ctx["pattern"] = NoValue) =>
         (predicate.kind = "err" /\ predicate.err = "PatternNotProvided")
    /\ (~GlobMode /\ result.ctx["pattern"] # NoValue) =>
         IF RegexNew(result.ctx["pattern"]).ok
         THEN predicate.kind = "ok" /\ predicate.re = result.ctx["pattern"]
         ELSE predicate.kind = "err" /\ predicate.err = "Regex"
    /\ Judged

C8_Witness ==
  /\ predicate.kind = "ok"
  /\ result.ctx["pattern"] = "\\.rs$"
  /\ probe.file_type = "file"
  /\ probe.name = <<"m", "a", "i", "n", ".", "p", "y">>
  /\ verdict = "reject"

(***************************************************************************)
(* The display-width fields of Context and their setters.                  *)
(***************************************************************************)

(* utils::num_integral: how many decimal digits the integral part takes.   *)
RECURSIVE NumIntegral(_)
NumIntegral(value) ==
  IF value = 0 THEN 0
  ELSE IF value < 10 THEN 1
  ELSE 1 + NumIntegral(value \div 10)

(* The Context a setter receives as `&mut self`: the fields clap filled    *)
(* and the two skipped width fields.                                       *)
Self ==
  [fields |-> result.ctx,
   max_du_width |-> max_du_width,
   max_nlink_width |-> max_nlink_width]

DuWriteAlways(size) == FALSE

(* The early return of set_max_du_width.                                   *)
DuWriteSkipped(size) == size = 0

SetMaxDuWidth(self, size) ==
  IF DuWriteSkipped(size)
  THEN self
  ELSE [self EXCEPT !.max_du_width = NumIntegral(size)]

SetMaxNlinkWidth(self, nlink) ==
  [self EXCEPT !.max_nlink_width = NumIntegral(nlink)]

Max(a, b) == IF a >= b THEN a ELSE b

(* The traversal visits one more entry and folds its finalized disk usage  *)
(* and link count into the running maxima.                                 *)
Visit ==
  /\ phase = "traverse"
  /\ visited < MaxEntries
  /\ \E size \in 0..MaxDu, nlink \in 0..MaxNlink :
       /\ maxDu' = Max(maxDu, size)
       /\ maxNlink' = Max(maxNlink, nlink)
  /\ visited' = visited + 1
  /\ UNCHANGED <<max_du_width, max_nlink_width, phase, duCalls, nlinkCalls,
                 duWrites, nlinkWrites, reads>>
  /\ UNCHANGED <<ctxVars, nodeVars, regexVars>>

(* Every entry has been visited and every size is final.                   *)
FinishTraversal ==
  /\ phase = "traverse"
  /\ phase' = "sized"
  /\ UNCHANGED <<max_du_width, max_nlink_width, visited, maxDu, maxNlink,
                 duCalls, nlinkCalls, duWrites, nlinkWrites, reads>>
  /\ UNCHANGED <<ctxVars, nodeVars, regexVars>>

(* The single-threaded step between traversal and rendering in which the   *)
(* maxima are handed to the setters, each once.                            *)
WidthsDue == phase = "sized"

CallSetMaxDuWidth ==
  /\ WidthsDue
  /\ duCalls = 0
  /\ \E new \in { SetMaxDuWidth(Self, maxDu) } :
       /\ result' = [result EXCEPT !.ctx = new.fields]
       /\ max_du_width' = new.max_du_width
       /\ max_nlink_width' = new.max_nlink_width
  /\ duCalls' = duCalls + 1
  /\ duWrites' = IF DuWriteSkipped(maxDu) THEN duWrites ELSE duWrites + 1
  /\ UNCHANGED <<phase, visited, maxDu, maxNlink, nlinkCalls, nlinkWrites,
                 reads>>
  /\ UNCHANGED <<argv, config, pc, path, user_args, config_args, args,
                 picked, origin>>
  /\ UNCHANGED <<nodeVars, regexVars>>

CallSetMaxNlinkWidth ==
  /\ WidthsDue
  /\ nlinkCalls = 0
  /\ \E new \in { SetMaxNlinkWidth(Self, maxNlink) } :
       /\ result' = [result EXCEPT !.ctx = new.fields]
       /\ max_du_width' = new.max_du_width
       /\ max_nlink_width' = new.max_nlink_width
  /\ nlinkCalls' = nlinkCalls + 1
  /\ nlinkWrites' = nlinkWrites + 1
  /\ UNCHANGED <<phase, visited, maxDu, maxNlink, duCalls, duWrites, reads>>
  /\ UNCHANGED <<argv, config, pc, path, user_args, config_args, args,
                 picked, origin>>
  /\ UNCHANGED <<nodeVars, regexVars>>

(* Rendering begins once both setters have been called.                    *)
BeginRender ==
  /\ WidthsDue
  /\ duCalls = 1
  /\ nlinkCalls = 1
  /\ phase' = "render"
  /\ UNCHANGED <<max_du_width, max_nlink_width, visited, maxDu, maxNlink,
                 duCalls, nlinkCalls, duWrites, nlinkWrites, reads>>
  /\ UNCHANGED <<ctxVars, nodeVars, regexVars>>

(* The renderer formats one entry, reading the widths from the Context.    *)
RenderEntry ==
  /\ phase = "render"
  /\ reads < visited
  /\ reads' = reads + 1
  /\ UNCHANGED <<max_du_width, max_nlink_width, phase, visited, maxDu,
                 maxNlink, duCalls, nlinkCalls, duWrites, nlinkWrites>>
  /\ UNCHANGED <<ctxVars, nodeVars, regexVars>>

InitWidth ==
  /\ \E live \in NodeArgv : AfterInit(live, NoConfig)
  /\ NodeIdle
  /\ RegexIdle
  /\ max_du_width = 0
  /\ max_nlink_width = 0
  /\ phase = "traverse"
  /\ visited = 0
  /\ maxDu = 0
  /\ maxNlink = 0
  /\ duCalls = 0
  /\ nlinkCalls = 0
  /\ duWrites = 0
  /\ nlinkWrites = 0
  /\ reads = 0

NextWidth ==
  \/ Visit
  \/ FinishTraversal
  \/ CallSetMaxDuWidth
  \/ CallSetMaxNlinkWidth
  \/ BeginRender
  \/ RenderEntry

SpecWidth == InitWidth /\ [][NextWidth]_vars

(* The fields clap filled are those Context::init returned.                *)
FieldsAsInit == result = InitOutcome(argv, config).result

(* No width is assigned while entries are still being visited, and none    *)
(* after the renderer has read them.                                       *)
WritesBetweenTraversalAndRender ==
  /\ phase = "traverse" => (duWrites = 0 /\ nlinkWrites = 0)
  /\ reads > 0 => (phase = "render" /\ duCalls = 1 /\ nlinkCalls = 1)

====
